---- MODULE Spec2Model ----
(***************************************************************************)
(* Model of stream-lambda/lambda_function.py: the EventBridge Lambda that  *)
(* archives deleted DynamoDB stream records to S3.                         *)
(*                                                                         *)
(* Python values are modelled as records [t, s, m] of one shape:           *)
(*   t = "str"   a str, s its text                                         *)
(*   t = "num"   an int/float, s its decimal text                          *)
(*   t = "null"  None                                                      *)
(*   t = "obj"   an object json cannot encode natively (Decimal, datetime),*)
(*               s the text str() gives for it                             *)
(*   t = "map"   a dict, m its items in insertion order, each [k, v]       *)
(*   t = "list"  a list, m its elements in order, each [k, v] with k = ""   *)
(* A call that can raise yields [raised, val, err].                        *)
(***************************************************************************)
EXTENDS Integers, Sequences, FiniteSets, TLC

VARIABLES
    env,              \* os.environ of the invocation: variable name -> value
    event,            \* the payload lambda_handler was invoked with
    pc,               \* position of lambda_handler
    table_name,       \* local of lambda_handler (line 37)
    s3_bucket,        \* local of lambda_handler (line 38)
    dynamodb_record,  \* local of lambda_handler (line 41)
    processed_count,  \* local of lambda_handler (line 51)
    failed_records,   \* local of lambda_handler (line 52)
    pending,          \* the put_object request in flight (lines 168-173)
    calls,            \* put_object calls of this invocation, with their result
    store,            \* the S3 store: <<bucket, key>> -> object
    store0,           \* the store as it was when the invocation started
    written,          \* history: the (record, table, bucket) whose write succeeded
    outcome,          \* how the invocation ended: returned value or raised error
    invocations       \* number of invocations started

vars == <<env, event, pc, table_name, s3_bucket, dynamodb_record, processed_count,
          failed_records, pending, calls, store, store0, written, outcome, invocations>>

(***************************************************************************)
(* Bound of the model.                                                     *)
(***************************************************************************)
MaxInvocations == 2

(***************************************************************************)
(* Python values.                                                          *)
(***************************************************************************)
Str(s) == [t |-> "str", s |-> s, m |-> <<>>]
Num(s) == [t |-> "num", s |-> s, m |-> <<>>]
Obj(s) == [t |-> "obj", s |-> s, m |-> <<>>]
NoneV == [t |-> "null", s |-> "", m |-> <<>>]
Map(items) == [t |-> "map", s |-> "", m |-> items]
KV(k, v) == [k |-> k, v |-> v]
EmptyMap == Map(<<>>)
List(values) == [t |-> "list", s |-> "", m |-> [i \in 1..Len(values) |-> KV("", values[i])]]

\* bool(value): the truth value Python's `not value` tests.
Truthy(v) ==
    CASE v.t = "str" -> v.s /= ""
      [] v.t = "num" -> v.s /= "0"
      [] v.t = "null" -> FALSE
      [] v.t = "map" -> v.m /= <<>>
      [] v.t = "list" -> v.m /= <<>>
      [] OTHER -> TRUE

\* Only a dict has .get and .items; on any other value the attribute lookup
\* raises AttributeError.
IsMapping(v) == v.t = "map"

PyTypeName(v) ==
    CASE v.t = "str" -> "str"
      [] v.t = "num" -> "int"
      [] v.t = "null" -> "NoneType"
      [] v.t = "map" -> "dict"
      [] v.t = "list" -> "list"
      [] OTHER -> "object"

AttributeError(v, attr) ==
    "'" \o PyTypeName(v) \o "' object has no attribute '" \o attr \o "'"

HasKey(d, k) == \E i \in 1..Len(d.m) : d.m[i].k = k

\* dict.get(k, default)
Get(d, k, default) ==
    IF HasKey(d, k)
    THEN d.m[CHOOSE i \in 1..Len(d.m) : d.m[i].k = k].v
    ELSE default

RECURSIVE Join(_, _)
\* sep.join(parts)
Join(parts, sep) ==
    IF parts = <<>> THEN ""
    ELSE IF Len(parts) = 1 THEN parts[1]
    ELSE parts[1] \o sep \o Join(Tail(parts), sep)

RECURSIVE Repr(_)
RECURSIVE ReprItems(_)
RECURSIVE ReprElements(_)
\* repr(value)
Repr(v) ==
    CASE v.t = "str" -> "'" \o v.s \o "'"
      [] v.t = "null" -> "None"
      [] v.t = "map" -> "{" \o Join(ReprItems(v.m), ", ") \o "}"
      [] v.t = "list" -> "[" \o Join(ReprElements(v.m), ", ") \o "]"
      [] OTHER -> v.s
ReprItems(items) ==
    IF items = <<>> THEN <<>>
    ELSE <<"'" \o items[1].k \o "': " \o Repr(items[1].v)>> \o ReprItems(Tail(items))
ReprElements(items) ==
    IF items = <<>> THEN <<>>
    ELSE <<Repr(items[1].v)>> \o ReprElements(Tail(items))

\* str(value), also what an f-string substitutes for {value}
PyStr(v) == IF v.t = "str" THEN v.s ELSE Repr(v)

(***************************************************************************)
(* Results of calls that may raise.                                        *)
(***************************************************************************)
Ret(v) == [raised |-> FALSE, val |-> v, err |-> ""]
Raise(v, e) == [raised |-> TRUE, val |-> v, err |-> e]

(***************************************************************************)
(* _get_env_variable (lines 123-128).                                      *)
(***************************************************************************)
\* os.getenv(var_name): None when the variable is not set.
getenv(environ, var_name) == environ[var_name]

\* as get_env_variable, accepting a variable that is set but empty
get_env_variable_NoEmptyCheck(environ, var_name) ==
    LET value == getenv(environ, var_name) IN
    IF value.t = "null"
    THEN Raise("", "Required environment variable " \o var_name \o " is not set")
    ELSE Ret(value.s)

get_env_variable(environ, var_name) ==
    LET value == getenv(environ, var_name) IN
    IF ~Truthy(value)
    THEN Raise("", "Required environment variable " \o var_name \o " is not set")
    ELSE Ret(value.s)

(***************************************************************************)
(* _is_delete_event (lines 131-133).                                       *)
(***************************************************************************)
is_delete_event(record) ==
    IF ~IsMapping(record) THEN Raise(FALSE, AttributeError(record, "get"))
    ELSE Ret(Get(record, "eventName", NoneV) = Str("REMOVE"))

(***************************************************************************)
(* _get_record_id (lines 136-149).                                         *)
(***************************************************************************)
RECURSIVE InnerParts_TypeTag(_, _)
\* as InnerParts, but formatting the type tag where the literal belongs
InnerParts_TypeTag(key, entries) ==
    IF entries = <<>> THEN <<>>
    ELSE <<key \o "_" \o entries[1].k>> \o InnerParts_TypeTag(key, Tail(entries))

RECURSIVE InnerParts(_, _)
\* the inner loop (lines 146-147): one fragment per entry of value_dict
InnerParts(key, entries) ==
    IF entries = <<>> THEN <<>>
    ELSE <<key \o "_" \o PyStr(entries[1].v)>> \o InnerParts(key, Tail(entries))

RECURSIVE KeyParts(_)
\* the outer loop (lines 144-147) over keys.items(); value_dict.items() raises
\* when value_dict is no dict
KeyParts(items) ==
    IF items = <<>> THEN Ret(<<>>)
    ELSE LET value_dict == items[1].v IN
         IF ~IsMapping(value_dict)
         THEN Raise(<<>>, AttributeError(value_dict, "items"))
         ELSE LET rest == KeyParts(Tail(items)) IN
              IF rest.raised THEN rest
              ELSE Ret(InnerParts(items[1].k, value_dict.m) \o rest.val)

\* str(record.get("eventID", "unknown")) (lines 142 and 149)
EventIdOrUnknown(record) == PyStr(Get(record, "eventID", Str("unknown")))

get_record_id(record) ==
    IF ~IsMapping(record) THEN Raise("", AttributeError(record, "get"))
    ELSE LET dynamodb_data == Get(record, "dynamodb", EmptyMap) IN
    IF ~IsMapping(dynamodb_data) THEN Raise("", AttributeError(dynamodb_data, "get"))
    ELSE LET keys == Get(dynamodb_data, "Keys", EmptyMap) IN
    IF ~Truthy(keys) THEN Ret(EventIdOrUnknown(record))
    ELSE IF ~IsMapping(keys) THEN Raise("", AttributeError(keys, "items"))
    ELSE LET key_parts == KeyParts(keys.m) IN
    IF key_parts.raised THEN Raise("", key_parts.err)
    ELSE IF key_parts.val /= <<>> THEN Ret(Join(key_parts.val, "_"))
    ELSE Ret(EventIdOrUnknown(record))

(***************************************************************************)
(* _extract_dynamodb_record (lines 87-120).  None is returned as NoneV.    *)
(***************************************************************************)
\* as extract_dynamodb_record, without the detail-type check of lines 106-109
extract_dynamodb_record_NoTypeCheck(ev) ==
    IF ~IsMapping(ev) THEN NoneV
    ELSE LET detail == Get(ev, "detail", EmptyMap) IN
    IF Get(ev, "source", NoneV) /= Str("custom.dynamodb") THEN NoneV
    ELSE IF ~Truthy(detail) THEN NoneV
    ELSE detail

\* as extract_dynamodb_record, taking the first record of a "Records" payload
extract_dynamodb_record_FirstRecord(ev) ==
    IF ~IsMapping(ev) THEN NoneV
    ELSE IF Truthy(Get(ev, "Records", NoneV)) /\ Get(ev, "Records", NoneV).t = "list"
    THEN Get(ev, "Records", NoneV).m[1].v
    ELSE LET detail == Get(ev, "detail", EmptyMap) IN
    IF Get(ev, "source", NoneV) /= Str("custom.dynamodb") THEN NoneV
    ELSE IF Get(ev, "detail-type", NoneV) /= Str("DynamoDB Stream Event") THEN NoneV
    ELSE IF ~Truthy(detail) THEN NoneV
    ELSE detail

extract_dynamodb_record(ev) ==
    IF ~IsMapping(ev) THEN NoneV    \* event.get raises; caught at line 118
    ELSE LET detail == Get(ev, "detail", EmptyMap) IN
    IF Get(ev, "source", NoneV) /= Str("custom.dynamodb") THEN NoneV
    ELSE IF Get(ev, "detail-type", NoneV) /= Str("DynamoDB Stream Event") THEN NoneV
    ELSE IF ~Truthy(detail) THEN NoneV
    ELSE detail

(***************************************************************************)
(* json.dumps(record, indent=2, default=str) (line 171) and json.loads.    *)
(* The JSON text is modelled as its sequence of tokens; the whitespace     *)
(* that indent=2 adds lies between tokens.                                 *)
(***************************************************************************)
Tok(kind, text) == [kind |-> kind, text |-> text]

RECURSIVE dumps(_)
RECURSIVE DumpItems(_)
RECURSIVE DumpElements(_)
dumps(v) ==
    CASE v.t = "str" -> <<Tok("string", v.s)>>
      [] v.t = "num" -> <<Tok("number", v.s)>>
      [] v.t = "null" -> <<Tok("null", "")>>
      [] v.t = "map" -> <<Tok("{", "")>> \o DumpItems(v.m) \o <<Tok("}", "")>>
      [] v.t = "list" -> <<Tok("[", "")>> \o DumpElements(v.m) \o <<Tok("]", "")>>
      [] OTHER -> <<Tok("string", PyStr(v))>>    \* default=str
DumpItems(items) ==
    IF items = <<>> THEN <<>>
    ELSE <<Tok("string", items[1].k), Tok(":", "")>> \o dumps(items[1].v)
         \o (IF Len(items) > 1 THEN <<Tok(",", "")>> ELSE <<>>)
         \o DumpItems(Tail(items))
DumpElements(items) ==
    IF items = <<>> THEN <<>>
    ELSE dumps(items[1].v)
         \o (IF Len(items) > 1 THEN <<Tok(",", "")>> ELSE <<>>)
         \o DumpElements(Tail(items))

RECURSIVE ParseValue(_)
RECURSIVE ParseMembers(_, _)
RECURSIVE ParseElements(_, _)
\* the decoder: the value the tokens start with, and the tokens after it
ParseValue(toks) ==
    LET head == toks[1] IN
    CASE head.kind = "string" -> [val |-> Str(head.text), rest |-> Tail(toks)]
      [] head.kind = "number" -> [val |-> Num(head.text), rest |-> Tail(toks)]
      [] head.kind = "null" -> [val |-> NoneV, rest |-> Tail(toks)]
      [] head.kind = "[" -> ParseElements(Tail(toks), <<>>)
      [] OTHER -> ParseMembers(Tail(toks), <<>>)
\* the members of an object, after its opening brace
ParseMembers(toks, acc) ==
    IF toks[1].kind = "}" THEN [val |-> Map(acc), rest |-> Tail(toks)]
    ELSE IF toks[1].kind = "," THEN ParseMembers(Tail(toks), acc)
    ELSE LET member == ParseValue(Tail(Tail(toks))) IN
         ParseMembers(member.rest, Append(acc, KV(toks[1].text, member.val)))
\* the elements of an array, after its opening bracket
ParseElements(toks, acc) ==
    IF toks[1].kind = "]" THEN [val |-> [t |-> "list", s |-> "", m |-> acc], rest |-> Tail(toks)]
    ELSE IF toks[1].kind = "," THEN ParseElements(Tail(toks), acc)
    ELSE LET element == ParseValue(toks) IN
         ParseElements(element.rest, Append(acc, KV("", element.val)))

loads(text) == ParseValue(text).val

(***************************************************************************)
(* Inputs: the payloads and environments an invocation is given.           *)
(***************************************************************************)
\* Keys of the tests' sample record (test_lambda_function.py line 35)
SampleKeys ==
    Map(<<KV("id", Map(<<KV("S", Str("user-123"))>>)),
          KV("timestamp", Map(<<KV("N", Str("1234567890"))>>))>>)

\* the values of the record's `dynamodb` field that carry usable keys
KeyedDynamodb ==
    { Map(<<KV("Keys", SampleKeys), KV("SizeBytes", Num("123"))>>),
      Map(<<KV("Keys", Map(<<KV("id", Map(<<KV("N", Num("5"))>>))>>))>>),
      Map(<<KV("ApproximateCreationDateTime", Obj("2023-01-01 12:00:00")),
            KV("Keys", Map(<<KV("pk", Map(<<KV("S", Str("a"))>>))>>))>>),
      Map(<<KV("Keys", Map(<<KV("pk", Map(<<KV("S", Str("a_sk_b"))>>)),
                             KV("sk", Map(<<KV("S", Str("c"))>>))>>))>>),
      Map(<<KV("Keys", Map(<<KV("pk", Map(<<KV("S", Str("a"))>>)),
                             KV("sk", Map(<<KV("S", Str("b_sk_c"))>>))>>))>>) }

\* ... that carry no key fragment: the identifier falls back to eventID
UnkeyedDynamodb ==
    { Map(<<KV("Keys", EmptyMap)>>),
      Map(<<KV("SizeBytes", Num("123"))>>),
      Map(<<KV("Keys", Map(<<KV("id", EmptyMap)>>))>>) }

\* ... that are not of the documented shape
MalformedDynamodb ==
    { Str("x"),
      Map(<<KV("Keys", Str("id"))>>),
      Map(<<KV("Keys", Map(<<KV("id", Str("user-123"))>>))>>) }

EventIdItems == { <<KV("eventID", Str("ev-1"))>>, <<KV("eventID", Str(""))>>, <<>> }

EventNameItems ==
    { <<KV("eventName", Str("REMOVE"))>>, <<KV("eventName", Str("INSERT"))>>,
      <<KV("eventName", Str("remove"))>>, <<>> }

Remove == <<KV("eventName", Str("REMOVE"))>>

Records ==
    { Map(<<KV("eventID", Str("ev-1"))>> \o n \o <<KV("dynamodb", d)>>) :
          n \in EventNameItems, d \in {CHOOSE k \in KeyedDynamodb : Truthy(Get(k, "SizeBytes", NoneV))} }
    \cup { Map(<<KV("eventID", Str("ev-1"))>> \o Remove \o <<KV("dynamodb", d)>>) :
          d \in KeyedDynamodb \cup MalformedDynamodb }
    \cup { Map(i \o Remove \o <<KV("dynamodb", d)>>) : i \in EventIdItems, d \in UnkeyedDynamodb }
    \cup { Map(i \o Remove) : i \in EventIdItems }
    \cup { Map(<<KV("eventName", Str("INSERT")), KV("dynamodb", Str("x"))>>) }

Envelope(source, detailType, detailItems) ==
    Map(<<KV("version", Str("0"))>> \o source \o detailType \o detailItems)

GoodSource == <<KV("source", Str("custom.dynamodb"))>>
GoodType == <<KV("detail-type", Str("DynamoDB Stream Event"))>>
SampleRecord == CHOOSE r \in Records : Get(r, "dynamodb", NoneV) \in KeyedDynamodb
                                        /\ Get(Get(r, "dynamodb", NoneV), "Keys", NoneV) = SampleKeys
                                        /\ Get(r, "eventName", NoneV) = Str("REMOVE")

\* payloads of the direct-stream shape {"Records": [...]}: two REMOVE records and
\* an INSERT, and the empty batch
DirectStreamPayloads ==
    { Map(<<KV("Records", List(<<SampleRecord,
                                  Map(<<KV("eventID", Str("ev-1"))>> \o Remove),
                                  Map(<<KV("eventID", Str("ev-2")), KV("eventName", Str("INSERT"))>>)>>))>>),
      Map(<<KV("Records", List(<<>>))>>) }

Events ==
    { Envelope(GoodSource, GoodType, <<KV("detail", r)>>) : r \in Records }
    \cup DirectStreamPayloads
    \cup { Envelope(<<KV("source", Str("wrong.source"))>>, GoodType, <<KV("detail", SampleRecord)>>),
           Envelope(<<>>, GoodType, <<KV("detail", SampleRecord)>>),
           Envelope(GoodSource, <<KV("detail-type", Str("Wrong Event Type"))>>,
                    <<KV("detail", SampleRecord)>>),
           Envelope(GoodSource, GoodType, <<>>),
           Envelope(GoodSource, GoodType, <<KV("detail", EmptyMap)>>),
           Envelope(GoodSource, GoodType, <<KV("detail", NoneV)>>),
           Envelope(GoodSource, GoodType, <<KV("detail", Str("abc"))>>),
           Str("not an envelope") }

EnvNames == {"DYNAMODB_TABLE_NAME", "S3_BUCKET_NAME"}
Environ(table, bucket) == [n \in EnvNames |-> IF n = "DYNAMODB_TABLE_NAME" THEN table ELSE bucket]

Environs ==
    { Environ(Str("test-table"), Str("test-bucket")),
      Environ(Str("orders"), Str("archive-2")),
      Environ(NoneV, Str("test-bucket")),
      Environ(Str("test-table"), Str("")),
      Environ(Str(""), NoneV) }

(***************************************************************************)
(* lambda_handler (lines 22-84) and _archive_record_to_s3 (lines 152-178). *)
(***************************************************************************)
Unset == [t |-> "unset", s |-> "", m |-> <<>>]
NoCall == [Bucket |-> "", Key |-> "", Body |-> <<>>, ContentType |-> ""]
BatchResult(processed, total, failed) ==
    [processedCount |-> processed, totalRecords |-> total, failedRecords |-> failed]
NoOutcome == [kind |-> "none", result |-> BatchResult(0, 0, <<>>), etype |-> "", message |-> "", line |-> 0]
Returned(result, line) ==
    [kind |-> "return", result |-> result, etype |-> "", message |-> "", line |-> line]
Raised(etype, message, line) ==
    [kind |-> "raise", result |-> BatchResult(0, 0, <<>>), etype |-> etype, message |-> message, line |-> line]

Terminal == pc \in {"Returned", "Raised"}

Init ==
    /\ env = Environ(NoneV, NoneV)
    /\ event = NoneV
    /\ pc = "Idle"
    /\ table_name = ""
    /\ s3_bucket = ""
    /\ dynamodb_record = Unset
    /\ processed_count = 0
    /\ failed_records = <<>>
    /\ pending = NoCall
    /\ calls = <<>>
    /\ store = <<>>
    /\ store0 = <<>>
    /\ written = {}
    /\ outcome = NoOutcome
    /\ invocations = 0

\* The execution environment invokes the handler with a payload.
Invoke(ev, environ) ==
    /\ pc = "Idle" \/ Terminal
    /\ invocations < MaxInvocations
    /\ invocations' = invocations + 1
    /\ event' = ev
    /\ env' = environ
    /\ pc' = "ReadEnv"
    /\ table_name' = ""
    /\ s3_bucket' = ""
    /\ dynamodb_record' = Unset
    /\ processed_count' = 0
    /\ failed_records' = <<>>
    /\ pending' = NoCall
    /\ calls' = <<>>
    /\ store0' = store
    /\ outcome' = NoOutcome
    /\ UNCHANGED <<store, written>>

\* lines 37-38; a ValueError passes through the outer handler (lines 82-84)
ReadEnv ==
    /\ pc = "ReadEnv"
    /\ LET t == get_env_variable(env, "DYNAMODB_TABLE_NAME")
           b == get_env_variable(env, "S3_BUCKET_NAME")
       IN IF t.raised
          THEN /\ outcome' = Raised("ValueError", t.err, 127)
               /\ pc' = "Raised"
               /\ UNCHANGED <<table_name, s3_bucket>>
          ELSE IF b.raised
          THEN /\ outcome' = Raised("ValueError", b.err, 127)
               /\ pc' = "Raised"
               /\ table_name' = t.val
               /\ UNCHANGED s3_bucket
          ELSE /\ table_name' = t.val
               /\ s3_bucket' = b.val
               /\ pc' = "Extract"
               /\ UNCHANGED outcome
    /\ UNCHANGED <<env, event, dynamodb_record, processed_count, failed_records, pending,
                   calls, store, store0, written, invocations>>

\* lines 41-54
Extract ==
    /\ pc = "Extract"
    /\ dynamodb_record' = extract_dynamodb_record(event)
    /\ IF ~Truthy(dynamodb_record')
       THEN /\ outcome' = Returned(BatchResult(0, 0, <<>>), 45)
            /\ pc' = "Returned"
       ELSE /\ pc' = "Process"
            /\ UNCHANGED outcome
    /\ processed_count' = 0
    /\ failed_records' = <<>>
    /\ UNCHANGED <<env, event, table_name, s3_bucket, pending, calls, store, store0,
                   written, invocations>>

\* The handler of lines 65-67 for an error with text msg: _get_record_id is
\* called again, and an error it raises there leaves lambda_handler through
\* the outer handler (lines 82-84).
HandleException(msg) ==
    LET rid == get_record_id(dynamodb_record) IN
    IF rid.raised
    THEN /\ outcome' = Raised("AttributeError", rid.err, 66)
         /\ pc' = "Raised"
         /\ UNCHANGED failed_records
    ELSE /\ failed_records' = Append(failed_records, [recordId |-> rid.val, error |-> msg])
         /\ pc' = "Aggregate"
         /\ UNCHANGED outcome

\* as s3_key, with the number of the invocation in the key
s3_key_Stamped(table, record_id) ==
    table \o "/" \o record_id \o "-" \o ToString(invocations) \o ".json"

\* f"{table_name}/{record_id}.json" (line 165)
s3_key(table, record_id) == table \o "/" \o record_id \o ".json"

\* as put_object_request, archiving the record's Keys alone
put_object_request_KeysOnly(record, table, bucket, record_id) ==
    [Bucket |-> bucket, Key |-> table \o "/" \o record_id \o ".json",
     Body |-> dumps(Get(Get(record, "dynamodb", EmptyMap), "Keys", EmptyMap)),
     ContentType |-> "application/json"]

\* the arguments of s3_client.put_object (lines 168-173)
put_object_request(record, table, bucket, record_id) ==
    [Bucket |-> bucket, Key |-> s3_key(table, record_id), Body |-> dumps(record),
     ContentType |-> "application/json"]

\* lines 56-58 and 61-63, and _archive_record_to_s3 up to the put_object call
Process ==
    /\ pc = "Process"
    /\ LET d == is_delete_event(dynamodb_record) IN
       IF d.raised
       THEN HandleException(d.err) /\ UNCHANGED pending
       ELSE IF d.val
       THEN LET rid == get_record_id(dynamodb_record) IN
            IF rid.raised
            THEN HandleException(rid.err) /\ UNCHANGED pending
            ELSE /\ pending' = put_object_request(dynamodb_record, table_name, s3_bucket, rid.val)
                 /\ pc' = "PutObject"
                 /\ UNCHANGED <<failed_records, outcome>>
       ELSE /\ pc' = "Aggregate"
            /\ UNCHANGED <<failed_records, outcome, pending>>
    /\ UNCHANGED <<env, event, table_name, s3_bucket, dynamodb_record, processed_count,
                   calls, store, store0, written, invocations>>

\* S3 put_object semantics: the object replaces whatever the key held.
put_object(objects, request) ==
    [k \in DOMAIN objects \cup {<<request.Bucket, request.Key>>} |->
        IF k = <<request.Bucket, request.Key>>
        THEN [Body |-> request.Body, ContentType |-> request.ContentType]
        ELSE objects[k]]

\* put_object returns; lines 174 and 59-60
PutObjectSucceeds ==
    /\ pc = "PutObject"
    /\ store' = put_object(store, pending)
    /\ calls' = Append(calls, [request |-> pending, ok |-> TRUE, err |-> ""])
    /\ written' = written \cup {[record |-> dynamodb_record, table |-> table_name, bucket |-> s3_bucket]}
    /\ pending' = NoCall
    /\ processed_count' = processed_count + 1
    /\ LET rid == get_record_id(dynamodb_record) IN
       IF rid.raised
       THEN HandleException(rid.err)
       ELSE /\ pc' = "Aggregate"
            /\ UNCHANGED <<failed_records, outcome>>
    /\ UNCHANGED <<env, event, table_name, s3_bucket, dynamodb_record, store0, invocations>>

\* str(e) of the errors put_object raises
PutObjectErrors ==
    { "An error occurred (NoSuchBucket) when calling the PutObject operation: The specified bucket does not exist",
      "An error occurred (AccessDenied) when calling the PutObject operation: Access Denied" }

\* as PutObjectFails, calling put_object again until the third attempt has failed
PutObjectFails_Retry(err) ==
    /\ pc = "PutObject"
    /\ calls' = Append(calls, [request |-> pending, ok |-> FALSE, err |-> err])
    /\ IF Len(calls) < 2
       THEN UNCHANGED <<pending, pc, failed_records, outcome>>
       ELSE pending' = NoCall /\ HandleException(err)
    /\ UNCHANGED <<env, event, table_name, s3_bucket, dynamodb_record, processed_count,
                   store, store0, written, invocations>>

\* put_object raises; lines 176-178, then the handler of lines 65-67
PutObjectFails(err) ==
    /\ pc = "PutObject"
    /\ calls' = Append(calls, [request |-> pending, ok |-> FALSE, err |-> err])
    /\ pending' = NoCall
    /\ HandleException(err)
    /\ UNCHANGED <<env, event, table_name, s3_bucket, dynamodb_record, processed_count,
                   store, store0, written, invocations>>

\* "Failed to process {len(failed_records)} records" (line 78)
BatchFailureMessage(failed) == "Failed to process " \o ToString(Len(failed)) \o " records"

\* lines 69-80
\* as Aggregate, returning the result whatever failed_records holds
Aggregate_NeverRaises ==
    /\ pc = "Aggregate"
    /\ outcome' = Returned(BatchResult(processed_count, 1, failed_records), 80)
    /\ pc' = "Returned"
    /\ UNCHANGED <<env, event, table_name, s3_bucket, dynamodb_record, processed_count,
                   failed_records, pending, calls, store, store0, written, invocations>>

Aggregate ==
    /\ pc = "Aggregate"
    /\ LET result == BatchResult(processed_count, 1, failed_records) IN
       IF failed_records /= <<>>
       THEN /\ outcome' = Raised("Exception", BatchFailureMessage(failed_records), 78)
            /\ pc' = "Raised"
       ELSE /\ outcome' = Returned(result, 80)
            /\ pc' = "Returned"
    /\ UNCHANGED <<env, event, table_name, s3_bucket, dynamodb_record, processed_count,
                   failed_records, pending, calls, store, store0, written, invocations>>

Next ==
    \/ \E ev \in Events, environ \in Environs : Invoke(ev, environ)
    \/ ReadEnv
    \/ Extract
    \/ Process
    \/ PutObjectSucceeds
    \/ \E err \in PutObjectErrors : PutObjectFails(err)
    \/ Aggregate

Spec == Init /\ [][Next]_vars

\* A step of the running handler; at most one of them is enabled in a state.
HandlerStep ==
    \/ ReadEnv
    \/ Extract
    \/ Process
    \/ PutObjectSucceeds
    \/ \E err \in PutObjectErrors : PutObjectFails(err)
    \/ Aggregate

\* lambda_handler is straight-line code that runs on once invoked, and the
\* blocking put_object call comes back, returning or raising.
Fairness == WF_vars(HandlerStep)

FairSpec == Spec /\ Fairness

(***************************************************************************)
(* What the claims speak of, stated on the inputs and not through the      *)
(* handler's own functions.                                                *)
(***************************************************************************)
\* a configuration value is set and not empty
IsSet(value) == value.t = "str" /\ value.s /= ""
ValidConfig == IsSet(env["DYNAMODB_TABLE_NAME"]) /\ IsSet(env["S3_BUCKET_NAME"])

\* a value is present and not empty
NonEmpty(v) == v.t /= "null" /\ v /= EmptyMap /\ v /= Str("")

\* the envelope passes the validation of section 4.3
EnvelopeValid(ev) ==
    /\ ev.t = "map"
    /\ HasKey(ev, "source") /\ Get(ev, "source", NoneV) = Str("custom.dynamodb")
    /\ HasKey(ev, "detail-type") /\ Get(ev, "detail-type", NoneV) = Str("DynamoDB Stream Event")
    /\ HasKey(ev, "detail") /\ NonEmpty(Get(ev, "detail", NoneV))

\* the record the envelope carries
Detail == IF event.t = "map" THEN Get(event, "detail", NoneV) ELSE NoneV

\* the record's eventName is exactly "REMOVE"
IsRemove(record) ==
    /\ record.t = "map"
    /\ HasKey(record, "eventName")
    /\ Get(record, "eventName", NoneV) = Str("REMOVE")

ReturnedResult(processed, total, failed) ==
    /\ pc = "Returned"
    /\ outcome.kind = "return"
    /\ outcome.result = [processedCount |-> processed, totalRecords |-> total, failedRecords |-> failed]

RaisedBatchFailure(n) ==
    /\ pc = "Raised"
    /\ outcome.kind = "raise"
    /\ outcome.message = "Failed to process " \o ToString(n) \o " records"

RaisedConfigurationError ==
    /\ pc = "Raised"
    /\ outcome.kind = "raise"
    /\ outcome.etype = "ValueError"
    /\ outcome.message \in { "Required environment variable DYNAMODB_TABLE_NAME is not set",
                             "Required environment variable S3_BUCKET_NAME is not set" }

(***************************************************************************)
(* C1.  With both configuration values set and an envelope that passes     *)
(* validation and carries a record (a mapping), put_object is called if    *)
(* and only if the record's eventName is exactly "REMOVE"; for any other   *)
(* or an absent eventName the store is left unchanged and the handler      *)
(* returns {processedCount: 0, totalRecords: 1, failedRecords: []}.        *)
(***************************************************************************)
C1_PutObjectIffRemove ==
    (Terminal /\ ValidConfig /\ EnvelopeValid(event) /\ Detail.t = "map") =>
        /\ (calls /= <<>>) <=> IsRemove(Detail)
        /\ ~IsRemove(Detail) => (store = store0 /\ ReturnedResult(0, 1, <<>>))

(***************************************************************************)
(* C2.  An invocation with valid configuration ends by raising "Failed to  *)
(* process {n} records" if and only if failedRecords is non-empty at       *)
(* aggregation, n being the number of its entries; otherwise it returns    *)
(* the BatchResult normally.  When the storage write for a REMOVE record   *)
(* fails, processedCount stays 0, exactly one entry {recordId: identifier  *)
(* of the record, error: message of the storage error} is recorded and     *)
(* "Failed to process 1 records" is raised.                                *)
(***************************************************************************)
C2_BatchFailureIffFailedRecords ==
    (Terminal /\ ValidConfig) =>
        /\ IF failed_records /= <<>>
           THEN RaisedBatchFailure(Len(failed_records))
           ELSE /\ pc = "Returned"
                /\ outcome.kind = "return"
                /\ outcome.result.failedRecords = <<>>
        /\ (calls /= <<>> /\ ~calls[Len(calls)].ok) =>
               /\ processed_count = 0
               /\ failed_records = << [recordId |-> get_record_id(Detail).val,
                                       error |-> calls[Len(calls)].err] >>
               /\ calls[Len(calls)].err \in PutObjectErrors
               /\ RaisedBatchFailure(1)

(***************************************************************************)
(* C3.  If either configuration value is absent or empty, lambda_handler   *)
(* raises a configuration error before any put_object call and before the  *)
(* payload is inspected: whatever the payload, the outcome is the          *)
(* configuration error, never a BatchResult, and the store is unchanged.   *)
(***************************************************************************)
C3_ConfigurationErrorFirst ==
    (pc /= "Idle" /\ ~ValidConfig) =>
        /\ pc \in {"ReadEnv", "Raised"}
        /\ dynamodb_record = Unset
        /\ calls = <<>> /\ pending = NoCall
        /\ store = store0
        /\ pc = "Raised" => RaisedConfigurationError

\* the configuration error on a payload that would fail validation, the store holding an object
C3_Witness ==
    /\ pc = "Raised" /\ ~ValidConfig
    /\ ~EnvelopeValid(event)
    /\ RaisedConfigurationError
    /\ store /= <<>>

(***************************************************************************)
(* C4.  Every error raised out of lambda_handler is a configuration error  *)
(* or the batch failure "Failed to process {n} records": an error raised   *)
(* while classifying, identifying or archiving a candidate record, of      *)
(* whatever shape, is recorded in failedRecords and never escapes.         *)
(***************************************************************************)
C4_OnlyConfigurationOrBatchErrors ==
    pc = "Raised" =>
        \/ RaisedConfigurationError
        \/ /\ failed_records /= <<>>
           /\ RaisedBatchFailure(Len(failed_records))

(***************************************************************************)
(* C5.  Extraction never raises and returns envelope.detail unchanged if   *)
(* and only if source is "custom.dynamodb", detail-type is "DynamoDB       *)
(* Stream Event" and detail is present and non-empty; otherwise it returns *)
(* absent, and lambda_handler, with valid configuration, returns           *)
(* {processedCount: 0, totalRecords: 0, failedRecords: []} without         *)
(* raising and without calling put_object.                                 *)
(***************************************************************************)
C5_ExtractionIffEnvelopeValid ==
    (dynamodb_record /= Unset) =>
        /\ EnvelopeValid(event) => dynamodb_record = Detail
        /\ ~EnvelopeValid(event) =>
               /\ dynamodb_record = NoneV
               /\ ReturnedResult(0, 0, <<>>)
               /\ calls = <<>> /\ pending = NoCall
               /\ store = store0

\* an envelope of the right source and a wrong detail-type gave the empty result
C5_Witness ==
    /\ dynamodb_record = NoneV
    /\ event.t = "map"
    /\ Get(event, "source", NoneV) = Str("custom.dynamodb")
    /\ Get(event, "detail-type", NoneV) = Str("Wrong Event Type")
    /\ NonEmpty(Detail)
    /\ ReturnedResult(0, 0, <<>>)

(***************************************************************************)
(* C6.  For a record whose dynamodb.Keys is non-empty, each attribute      *)
(* mapped to a one-entry {type_tag: literal} mapping, the identifier is    *)
(* the fragments name_literal of all key attributes, in the order of Keys, *)
(* joined by "_", and archive writes exactly one object, to the configured *)
(* bucket, under "{tableName}/{recordId}.json", with content type          *)
(* application/json; Keys {id: user-123, timestamp: 1234567890} and table  *)
(* test-table give test-table/id_user-123_timestamp_1234567890.json.       *)
(***************************************************************************)
KeysOf(record) == Get(Get(record, "dynamodb", EmptyMap), "Keys", EmptyMap)

\* dynamodb.Keys is a non-empty mapping of attributes to one-entry mappings
WellKeyed(record) ==
    /\ record.t = "map"
    /\ Get(record, "dynamodb", EmptyMap).t = "map"
    /\ KeysOf(record).t = "map"
    /\ KeysOf(record).m /= <<>>
    /\ \A i \in 1..Len(KeysOf(record).m) :
           /\ KeysOf(record).m[i].v.t = "map"
           /\ Len(KeysOf(record).m[i].v.m) = 1
           /\ KeysOf(record).m[i].v.m[1].v.t \in {"str", "num"}

RECURSIVE ExpectedId(_, _)
\* the first n fragments attribute_literal of the key attributes, joined by "_"
ExpectedId(attrs, n) ==
    LET fragment == attrs[n].k \o "_" \o attrs[n].v.m[1].v.s IN
    IF n = 1 THEN fragment ELSE ExpectedId(attrs, n - 1) \o "_" \o fragment

ExpectedIdOf(record) == ExpectedId(KeysOf(record).m, Len(KeysOf(record).m))

C6_KeyedIdentifierAndArchiveKey ==
    (dynamodb_record /= Unset /\ WellKeyed(dynamodb_record)) =>
        /\ get_record_id(dynamodb_record) = [raised |-> FALSE, val |-> ExpectedIdOf(dynamodb_record), err |-> ""]
        /\ (KeysOf(dynamodb_record) = SampleKeys) =>
               get_record_id(dynamodb_record).val = "id_user-123_timestamp_1234567890"
        /\ (Terminal /\ IsRemove(dynamodb_record)) =>
               LET key == env["DYNAMODB_TABLE_NAME"].s \o "/" \o ExpectedIdOf(dynamodb_record) \o ".json"
                   bucket == env["S3_BUCKET_NAME"].s
               IN /\ Len(calls) = 1
                  /\ calls[1].request.Bucket = bucket
                  /\ calls[1].request.Key = key
                  /\ calls[1].request.ContentType = "application/json"
                  /\ (KeysOf(dynamodb_record) = SampleKeys /\ env["DYNAMODB_TABLE_NAME"].s = "test-table")
                         => calls[1].request.Key = "test-table/id_user-123_timestamp_1234567890.json"
                  /\ DOMAIN store \subseteq DOMAIN store0 \cup {<<bucket, key>>}
                  /\ calls[1].ok =>
                         /\ <<bucket, key>> \in DOMAIN store
                         /\ store[<<bucket, key>>].ContentType = "application/json"
                         /\ store[<<bucket, key>>].Body = calls[1].request.Body

\* the sample record was archived for table test-table
C6_Witness ==
    /\ Terminal
    /\ dynamodb_record /= Unset /\ WellKeyed(dynamodb_record) /\ IsRemove(dynamodb_record)
    /\ Len(KeysOf(dynamodb_record).m) = 2
    /\ Len(calls) = 1 /\ calls[1].ok
    /\ <<"test-bucket", "test-table/id_user-123_timestamp_1234567890.json">> \in DOMAIN store

(***************************************************************************)
(* C7.  For a record whose dynamodb.Keys is empty or absent, the           *)
(* identifier is record.eventID if eventID is present and non-empty, and   *)
(* "unknown" otherwise, also when eventID is present but empty.            *)
(***************************************************************************)
\* dynamodb.Keys is empty or absent
Unkeyed(record) ==
    /\ record.t = "map"
    /\ \/ ~HasKey(record, "dynamodb")
       \/ /\ Get(record, "dynamodb", NoneV).t = "map"
          /\ \/ ~HasKey(Get(record, "dynamodb", NoneV), "Keys")
             \/ KeysOf(record) = EmptyMap

C7_FallbackIdentifier ==
    (dynamodb_record /= Unset /\ Unkeyed(dynamodb_record)) =>
        get_record_id(dynamodb_record) =
            [raised |-> FALSE,
             val |-> IF HasKey(dynamodb_record, "eventID")
                        /\ NonEmpty(Get(dynamodb_record, "eventID", NoneV))
                     THEN Get(dynamodb_record, "eventID", NoneV).s
                     ELSE "unknown",
             err |-> ""]

(***************************************************************************)
(* C8.  The identifier derivation is total and never raises: for every     *)
(* record, empty and malformed ones included, it returns a string.         *)
(***************************************************************************)
C8_IdentifierNeverRaises ==
    (dynamodb_record /= Unset /\ dynamodb_record /= NoneV) =>
        ~get_record_id(dynamodb_record).raised

(***************************************************************************)
(* C9.  Archival is idempotent under retry: after any sequence of          *)
(* invocations that archive the same (record, table, bucket), at least one *)
(* write having succeeded, the store holds exactly one object for the      *)
(* record, at the key and with the content a single successful archive     *)
(* leaves; a failed write leaves the store unchanged.                      *)
(***************************************************************************)
\* the store a single successful archive of w into the empty store leaves
SingleArchive(w) ==
    [k \in {<<w.bucket, w.table \o "/" \o get_record_id(w.record).val \o ".json">>} |->
        [Body |-> dumps(w.record), ContentType |-> "application/json"]]

C9_ArchiveIdempotent ==
    /\ written = {} => store = <<>>
    /\ \A w \in written : written = {w} => store = SingleArchive(w)
    /\ (calls /= <<>> /\ ~calls[Len(calls)].ok) => store = store0

\* the record archived by the first invocation was archived again by the second
C9_Witness ==
    /\ Terminal
    /\ invocations = 2
    /\ store0 /= <<>>
    /\ calls /= <<>> /\ calls[1].ok
    /\ Cardinality(written) = 1
    /\ Cardinality(DOMAIN store) = 1

(***************************************************************************)
(* C10.  Round trip: after a successful archive the object stored at       *)
(* "{tableName}/{recordId}.json" holds the full change record and          *)
(* deserializes to a value equal to the original record, up to the         *)
(* stringification of values that are not natively JSON-representable.     *)
(***************************************************************************)
RECURSIVE Stringified(_)
RECURSIVE StringifiedItems(_)
\* the value with every value JSON cannot represent replaced by its text
Stringified(v) ==
    IF v.t = "obj" THEN [t |-> "str", s |-> v.s, m |-> <<>>]
    ELSE IF v.t = "map" THEN [t |-> "map", s |-> "", m |-> StringifiedItems(v.m)]
    ELSE v
StringifiedItems(items) ==
    IF items = <<>> THEN <<>>
    ELSE <<[k |-> items[1].k, v |-> Stringified(items[1].v)]>> \o StringifiedItems(Tail(items))

ArchivedAt(bucket, table, record) ==
    store[<<bucket, table \o "/" \o get_record_id(record).val \o ".json">>]

C10_RoundTrip ==
    (Terminal /\ calls /= <<>> /\ calls[Len(calls)].ok) =>
        /\ <<s3_bucket, table_name \o "/" \o get_record_id(Detail).val \o ".json">> \in DOMAIN store
        /\ loads(ArchivedAt(s3_bucket, table_name, Detail).Body) = Stringified(Detail)
        /\ Stringified(Detail) = Detail =>
               loads(ArchivedAt(s3_bucket, table_name, Detail).Body) = Detail

\* a record with a value JSON cannot represent was archived, after one without
C10_Witness ==
    /\ Terminal
    /\ calls /= <<>> /\ calls[1].ok
    /\ Stringified(Detail) /= Detail
    /\ \E w \in written : Stringified(w.record) = w.record /\ HasKey(w.record, "dynamodb")

(***************************************************************************)
(* C11.  Direct-stream batch aggregation: given a payload {"Records":      *)
(* [...]}, the candidates are processed in input order, a failure of one   *)
(* does not stop the later ones, totalRecords is the number of candidates, *)
(* processedCount the number of REMOVE records archived successfully and   *)
(* failedRecords has one entry per failed REMOVE record; with a failed     *)
(* record the batch failure naming their number is raised.                 *)
(* As amended: a payload {"Records": [...]} is no event-bus envelope, so   *)
(* lambda_handler obtains zero candidates from it, calls put_object for    *)
(* none of its records, leaves the store unchanged and returns             *)
(* {processedCount: 0, totalRecords: 0, failedRecords: []}; in every       *)
(* invocation at most one put_object call is made, processedCount is the   *)
(* number of successful writes, failedRecords has one entry per failed     *)
(* write and a failed write raises "Failed to process 1 records".          *)
(***************************************************************************)
\* the payload has the direct-stream shape
IsDirectStream(ev) ==
    /\ ev.t = "map"
    /\ HasKey(ev, "Records")
    /\ Get(ev, "Records", NoneV).t = "list"

\* the candidates of a direct-stream payload
Candidates(ev) == Get(ev, "Records", NoneV).m

\* the number of this invocation's put_object calls that ended ok / not ok
CallsEnded(ok) == Cardinality({i \in 1..Len(calls) : calls[i].ok = ok})

C12_AtMostOneCall ==
    /\ Len(calls) <= 1
    /\ calls /= <<>> => (pending = NoCall /\ pc \in {"Aggregate", "Returned", "Raised"})

\* once a call has ended, the next call is one of a new invocation
C12_NextCallIsNewInvocation ==
    (calls /= <<>> /\ (calls' /= calls \/ pending' /= pending \/ store' /= store))
        => (invocations' = invocations + 1 /\ calls' = <<>> /\ store' = store)

C12_TerminatesWithoutRetry ==
    /\ [](C12_AtMostOneCall)
    /\ [][C12_NextCallIsNewInvocation]_vars
    /\ (pc = "ReadEnv") ~> Terminal

\* the one storage write of an invocation failed and the invocation ended in a raise
C12_Witness ==
    /\ pc = "Raised"
    /\ Len(calls) = 1 /\ ~calls[1].ok
    /\ store = store0

(***************************************************************************)
(* C13.  After any sequence of successful invocations for REMOVE records   *)
(* of one table, the store holds a durable copy of each deleted record:    *)
(* two records whose Keys mappings differ, in attribute names or in        *)
(* literal values, are never written to the same archive key, so archiving *)
(* one never overwrites the archived copy of the other.                    *)
(***************************************************************************)
\* the attribute names, and the literals, of a record's Keys, in order
KeyNames(record) == [i \in 1..Len(KeysOf(record).m) |-> KeysOf(record).m[i].k]
KeyLiterals(record) == [i \in 1..Len(KeysOf(record).m) |-> KeysOf(record).m[i].v.m[1].v]

KeysDiffer(r1, r2) == KeyNames(r1) /= KeyNames(r2) \/ KeyLiterals(r1) /= KeyLiterals(r2)

\* the key under which a successful write of w was made
ArchiveKeyOf(w) == <<w.bucket, w.table \o "/" \o get_record_id(w.record).val \o ".json">>

C13_DistinctKeysDistinctObjects ==
    \A w1, w2 \in written :
        (/\ WellKeyed(w1.record) /\ WellKeyed(w2.record)
         /\ w1.table = w2.table /\ w1.bucket = w2.bucket
         /\ KeysDiffer(w1.record, w2.record))
        => /\ ArchiveKeyOf(w1) /= ArchiveKeyOf(w2)
           /\ ArchiveKeyOf(w1) \in DOMAIN store
           /\ loads(store[ArchiveKeyOf(w1)].Body) = Stringified(w1.record)

(***************************************************************************)
(* C14.  Every BatchResult that lambda_handler returns, rather than        *)
(* raises, has an empty failedRecords, totalRecords 0 or 1, processedCount *)
(* 0 or 1 and at most totalRecords, and processedCount 1 exactly when one  *)
(* put_object call was made and succeeded during that invocation.          *)
(***************************************************************************)
C14_ReturnedBatchResult ==
    (pc = "Returned" /\ outcome.kind = "return") =>
        LET r == outcome.result IN
        /\ r.failedRecords = <<>>
        /\ r.totalRecords \in {0, 1}
        /\ r.processedCount \in {0, 1}
        /\ r.processedCount <= r.totalRecords
        /\ r.processedCount = 1 <=> (Len(calls) = 1 /\ calls[1].ok)

C14_Witness ==
    /\ ReturnedResult(1, 1, <<>>)
    /\ Len(calls) = 1
    /\ calls[1].ok
    /\ store /= store0

====
